---- MODULE Spec2Model ----
(***************************************************************************)
(* The call-log store of the SE Customer Outreach Hub (src/app.py): the    *)
(* remote Google-Sheets log, the local JSON fallback, the per-session      *)
(* in-memory mapping and the row-edit handler that drives them.            *)
(*                                                                         *)
(* Two browser sessions share one remote worksheet, one local file and the *)
(* process-wide cached connection.  A remote upsert or delete is two       *)
(* remote calls (find the row, then write by row position); other sessions *)
(* may act between them.  Every remote call and every local file write may *)
(* fail.                                                                   *)
(***************************************************************************)
EXTENDS Integers, Sequences, FiniteSets, TLC

VARIABLES
    sheet,           \* data rows of worksheet "call_log" (below the header row)
    file,            \* call_log.json: missing, corrupt, or a serialized mapping
    connCache,       \* st.cache_resource entry of get_gsheet_connection
    loaded,          \* loaded[s]: st.session_state.call_log is not None
    call_log,        \* call_log[s]: st.session_state.call_log (a dict)
    gsheets_active,  \* gsheets_active[s]: st.session_state.gsheets_active
    pc,              \* pc[s]: where session s stands inside a remote write
    edits,           \* number of row edits and refreshes started so far
    last,            \* the step taken last: operation, inputs and outcome
    dataset          \* the campaign CSVs: per campaign prefix, its customer ids

vars == <<sheet, file, connCache, loaded, call_log, gsheets_active, pc, edits, last,
          dataset>>

----------------------------------------------------------------------------
(* Bounds of the model *)

\* Row edits and refresh clicks per behaviour.
MaxEdits == 2

----------------------------------------------------------------------------
(* Sessions, keys and the small input sets *)

Sessions == {"s1", "s2"}

\* gun(): the user name of a session (free text typed at login).
gun(s) == IF s = "s1" THEN "Pat" ELSE "Sam"

\* gbn(): the branch of a session.
gbn(s) == IF s = "s1" THEN "Dublin" ELSE "Heath"

\* Campaign prefixes and customer ids, as token sequences ("_" is a token).
PrefixRecovery == <<"recovery">>
PrefixConquestSn == <<"conquest", "_", "sn">>

\* lk = f"{prefix}_{cid}"
LogKey(prefix, cid) == prefix \o <<"_">> \o cid

Keys == {LogKey(PrefixRecovery, <<"A">>), LogKey(PrefixConquestSn, <<"B">>)}

\* The campaign datasets behind Keys: one recovery row, one conquest_sn row.
\* A CSV that is missing or unreadable loads as an empty dataset.
CampaignData ==
    [recovery |-> << <<"A">> >>, conquest_sn |-> << <<"B">> >>,
     conquest_eda |-> <<>>, parts |-> <<>>, service |-> <<>>, consignment |-> <<>>]

\* Displayed customer name of a key's dataset row.
cname(key) == IF key = LogKey(PrefixRecovery, <<"A">>) THEN "A" ELSE "B"

\* Text typed in the notes box.
NoteTexts == {"", "vm"}

\* datetime.now().strftime('%Y-%m-%d %H:%M'), one minute of the session.
Now == "2026-01-05 09:00"

\* The empty dict.
EmptyLog == [k \in {} |-> TRUE]

\* No key (an empty first cell), no entry.
NoKey == <<>>
NoEntry == [none |-> TRUE]

----------------------------------------------------------------------------
(* Dict helpers *)

\* log.get(key, {}) field lookups of render_row.
HasKey(log, key) == key \in DOMAIN log

GetCalled(log, key) == IF HasKey(log, key) THEN log[key].called ELSE FALSE

GetFollowup(log, key) == IF HasKey(log, key) THEN log[key].followup ELSE FALSE

GetNotes(log, key) == IF HasKey(log, key) THEN log[key].notes ELSE ""

\* st.session_state.call_log[log_key] = entry
DictSet(log, key, entry) ==
    [k \in (DOMAIN log) \cup {key} |-> IF k = key THEN entry ELSE log[k]]

\* if log_key in call_log: del call_log[log_key]
DictDel(log, key) == [k \in (DOMAIN log) \ {key} |-> log[k]]

----------------------------------------------------------------------------
(* Remote worksheet: rows, string encoding of booleans *)

\* str(True) / str(False)
PyStr(b) == IF b THEN "True" ELSE "False"

\* str(x).lower() on the cell texts the model holds.
Lower(s) ==
    CASE s \in {"True", "TRUE", "true"} -> "true"
      [] s \in {"False", "FALSE", "false"} -> "false"
      [] s = "Recovery" -> "recovery"
      [] s = "Conquest" -> "conquest"
      [] s = "Parts" -> "parts"
      [] s = "Service" -> "service"
      [] s = "Consignment" -> "consignment"
      [] OTHER -> s

\* Cell texts that int() or float() accepts, and the int each one is.
NumericTexts == {"42", "007", "1"}

IntValue(s) == CASE s = "42" -> 42 [] s = "007" -> 7 [] s = "1" -> 1

\* A Python int n, written so that it differs from every str.
PyInt(n) == "<int " \o ToString(n) \o ">"

PyInts == {PyInt(IntValue(s)) : s \in NumericTexts}

\* ws.get_all_records() numericises every cell: a text that reads as a
\* number comes back as that number, any other text as it is.
numericise(cell) == IF cell \in NumericTexts THEN PyInt(IntValue(cell)) ELSE cell

\* str(r.get("called", "")).lower() == "true"
ParseBool(s) == Lower(s) = "true"

\* A row of the grid with nothing in it.
BlankRow ==
    [log_key |-> <<>>, customer_name |-> "", branch_name |-> "", called |-> "",
     followup |-> "", notes |-> "", user |-> "", date_updated |-> "",
     campaign |-> <<>>]

\* log_key.split("_")[0]
RECURSIVE SplitFirst(_)
SplitFirst(key) ==
    IF key = <<>> \/ Head(key) = "_" THEN <<>>
    ELSE <<Head(key)>> \o SplitFirst(Tail(key))

\* "conquest" in log_key
ContainsConquest(key) == \E i \in 1..Len(key) : key[i] = "conquest"

\* campaign column of a written row.
Campaign(key) == IF ContainsConquest(key) THEN <<"conquest">> ELSE SplitFirst(key)

\* row_data of save_entry_gsheets.
RowData(key, entry) ==
    [log_key |-> key, customer_name |-> entry.customer_name,
     branch_name |-> entry.branch_name, called |-> PyStr(entry.called),
     followup |-> PyStr(entry.followup), notes |-> entry.notes,
     user |-> entry.user, date_updated |-> entry.date_updated,
     campaign |-> Campaign(key)]

\* The dict load_call_log_gsheets builds for one record.
EntryOfRow(r) ==
    [customer_name |-> numericise(r.customer_name),
     branch_name |-> numericise(r.branch_name),
     called |-> ParseBool(numericise(r.called)),
     followup |-> ParseBool(numericise(r.followup)),
     notes |-> numericise(r.notes), user |-> numericise(r.user),
     date_updated |-> numericise(r.date_updated)]

\* The loop of load_call_log_gsheets: later rows of a key replace earlier ones,
\* rows with an empty log_key are skipped.
RECURSIVE LoadRows(_, _)
LoadRows(rows, log) ==
    IF rows = <<>> THEN log
    ELSE LoadRows(Tail(rows),
                  IF Head(rows).log_key = <<>> THEN log
                  ELSE DictSet(log, Head(rows).log_key, EntryOfRow(Head(rows))))

\* load_call_log_gsheets(sh): ok is whether worksheet() and get_all_records()
\* both answered; any exception gives {}.
load_call_log_gsheets(rows, ok) == IF ok THEN LoadRows(rows, EmptyLog) ELSE EmptyLog

\* ws.find(log_key, in_column=1): position of the first row whose first cell is
\* the key, 0 when there is none.
RECURSIVE FindFrom(_, _, _)
FindFrom(rows, key, i) ==
    IF i > Len(rows) THEN 0
    ELSE IF rows[i].log_key = key THEN i
    ELSE FindFrom(rows, key, i + 1)

ws_find(rows, key) == FindFrom(rows, key, 1)

\* The grid's data ends at its last non-empty row.
RECURSIVE Trim(_)
Trim(rows) ==
    IF rows = <<>> THEN rows
    ELSE IF rows[Len(rows)] = BlankRow THEN Trim(SubSeq(rows, 1, Len(rows) - 1))
    ELSE rows

\* ws.update(f"A{cell.row}:I{cell.row}", [row_data]): writes the row at that
\* position, whatever is there now; positions past the data are empty rows.
ws_update(rows, cell, row) ==
    IF cell <= Len(rows) THEN [rows EXCEPT ![cell] = row]
    ELSE rows \o [i \in 1..(cell - Len(rows) - 1) |-> BlankRow] \o <<row>>

\* ws.append_row(row_data)
ws_append_row(rows, row) == Append(rows, row)

\* ws.delete_rows(cell.row): removes the row at that position, whatever it is.
ws_delete_rows(rows, cell) ==
    IF cell <= Len(rows)
    THEN Trim(SubSeq(rows, 1, cell - 1) \o SubSeq(rows, cell + 1, Len(rows)))
    ELSE rows

----------------------------------------------------------------------------
(* Text values: the Python str each string of the model denotes *)

\* Every str value the model's inputs can hold.
Texts ==
    {"", "A", "B", "vm", "Pat", "Sam", "Dublin", "Heath", "2026-01-05 09:00",
     "recovery", "conquest", "sn", "eda", "parts", "service", "consignment",
     "_", "Zoë", "q\"\\", "\\u00eb", "a\tb", " ", "42", "007", "1"}

\* The code points of a str.
Chars(s) ==
    CASE s = "" -> <<>>
      [] s = "A" -> <<65>>
      [] s = "B" -> <<66>>
      [] s = "vm" -> <<118, 109>>
      [] s = "Pat" -> <<80, 97, 116>>
      [] s = "Sam" -> <<83, 97, 109>>
      [] s = "Dublin" -> <<68, 117, 98, 108, 105, 110>>
      [] s = "Heath" -> <<72, 101, 97, 116, 104>>
      [] s = "2026-01-05 09:00" ->
             <<50, 48, 50, 54, 45, 48, 49, 45, 48, 53, 32, 48, 57, 58, 48, 48>>
      [] s = "recovery" -> <<114, 101, 99, 111, 118, 101, 114, 121>>
      [] s = "conquest" -> <<99, 111, 110, 113, 117, 101, 115, 116>>
      [] s = "sn" -> <<115, 110>>
      [] s = "eda" -> <<101, 100, 97>>
      [] s = "parts" -> <<112, 97, 114, 116, 115>>
      [] s = "service" -> <<115, 101, 114, 118, 105, 99, 101>>
      [] s = "consignment" -> <<99, 111, 110, 115, 105, 103, 110, 109, 101, 110, 116>>
      [] s = "_" -> <<95>>
      [] s = "Zoë" -> <<90, 111, 235>>
      [] s = "q\"\\" -> <<113, 34, 92>>
      [] s = "\\u00eb" -> <<92, 117, 48, 48, 101, 98>>
      [] s = "a\tb" -> <<97, 9, 98>>
      [] s = " " -> <<32>>
      [] s = "42" -> <<52, 50>>
      [] s = "007" -> <<48, 48, 55>>
      [] s = "1" -> <<49>>

\* A str that is none of Texts.
OtherText == "<other>"

\* Chars as a table.
TextChars == [s \in Texts |-> Chars(s)]

\* The str with the given code points.
TextOf(cps) ==
    LET found == {s \in Texts : TextChars[s] = cps}
    IN IF found = {} THEN OtherText ELSE CHOOSE s \in found : TRUE

\* The code points of a key (the concatenation of its tokens).
RECURSIVE KeyChars(_)
KeyChars(key) ==
    IF key = <<>> THEN <<>> ELSE TextChars[Head(key)] \o KeyChars(Tail(key))

----------------------------------------------------------------------------
(* JSON strings as json.dump writes them and json.load reads them *)

\* One hexadecimal digit as a character, lower case ('{0:04x}').
HexDigit(d) == IF d < 10 THEN 48 + d ELSE 87 + d

\* Value of a hexadecimal digit character, -1 for any other character.
HexVal(ch) ==
    IF ch >= 48 /\ ch <= 57 THEN ch - 48
    ELSE IF ch >= 97 /\ ch <= 102 THEN ch - 87
    ELSE IF ch >= 65 /\ ch <= 70 THEN ch - 55
    ELSE -1

\* Variant of the encoder's replacement that leaves the backslash alone.
encode_char_keeps_backslash(c) ==
    CASE c = 34 -> <<92, 34>>
      [] c = 8 -> <<92, 98>>
      [] c = 12 -> <<92, 102>>
      [] c = 10 -> <<92, 110>>
      [] c = 13 -> <<92, 114>>
      [] c = 9 -> <<92, 116>>
      [] c # 92 /\ (c < 32 \/ c > 126) ->
             <<92, 117, HexDigit((c \div 4096) % 16), HexDigit((c \div 256) % 16),
               HexDigit((c \div 16) % 16), HexDigit(c % 16)>>
      [] OTHER -> <<c>>

\* json.encoder, ensure_ascii: backslash, quote and everything outside
\* ' '..'~' are replaced (ESCAPE_DCT, else \uXXXX); code points below 65536.
encode_char(c) ==
    CASE c = 92 -> <<92, 92>>
      [] c = 34 -> <<92, 34>>
      [] c = 8 -> <<92, 98>>
      [] c = 12 -> <<92, 102>>
      [] c = 10 -> <<92, 110>>
      [] c = 13 -> <<92, 114>>
      [] c = 9 -> <<92, 116>>
      [] c < 32 \/ c > 126 ->
             <<92, 117, HexDigit((c \div 4096) % 16), HexDigit((c \div 256) % 16),
               HexDigit((c \div 16) % 16), HexDigit(c % 16)>>
      [] OTHER -> <<c>>

\* The body of the JSON string written for a str.
RECURSIVE encode_basestring_ascii(_)
encode_basestring_ascii(cps) ==
    IF cps = <<>> THEN <<>>
    ELSE encode_char(Head(cps)) \o encode_basestring_ascii(Tail(cps))

\* A failed scan.
BadString == [ok |-> FALSE, cps |-> <<>>]

\* The character a two-character escape stands for, -1 when there is none.
Backslash(ch) ==
    CASE ch = 34 -> 34
      [] ch = 92 -> 92
      [] ch = 47 -> 47
      [] ch = 98 -> 8
      [] ch = 102 -> 12
      [] ch = 110 -> 10
      [] ch = 114 -> 13
      [] ch = 116 -> 9
      [] OTHER -> -1

\* The first character of the body of a JSON string, as json.decoder
\* scanstring (strict) reads it: the code point c and the n characters it
\* takes. A bare quote or control character, an unknown escape or a short \u
\* is an error.
BadChar == [ok |-> FALSE, c |-> 0, n |-> 0]

scanstring_char(body) ==
    IF Head(body) = 34 \/ Head(body) < 32 THEN BadChar
    ELSE IF Head(body) # 92 THEN [ok |-> TRUE, c |-> Head(body), n |-> 1]
    ELSE IF Len(body) < 2 THEN BadChar
    ELSE IF body[2] # 117
    THEN IF Backslash(body[2]) < 0 THEN BadChar
         ELSE [ok |-> TRUE, c |-> Backslash(body[2]), n |-> 2]
    ELSE IF Len(body) < 6 THEN BadChar
    ELSE IF \E i \in 3..6 : HexVal(body[i]) < 0 THEN BadChar
    ELSE [ok |-> TRUE,
          c |-> HexVal(body[3]) * 4096 + HexVal(body[4]) * 256
                + HexVal(body[5]) * 16 + HexVal(body[6]),
          n |-> 6]

\* json.decoder scanstring on the whole body.
RECURSIVE scanstring(_)
scanstring(body) ==
    IF body = <<>> THEN [ok |-> TRUE, cps |-> <<>>]
    ELSE LET ch == scanstring_char(body)
         IN IF ~ch.ok THEN BadString
            ELSE LET r == scanstring(SubSeq(body, ch.n + 1, Len(body)))
                 IN [ok |-> r.ok, cps |-> <<ch.c>> \o r.cps]

\* encode_basestring_ascii and scanstring as tables over the model's strs.
EncodedText == [s \in Texts |-> encode_basestring_ascii(TextChars[s])]
ScannedBody == [b \in {EncodedText[s] : s \in Texts} |-> scanstring(b)]

\* JSON values of an entry: a string, or the literal true / false.
JsonString(s) == [t |-> "string", body |-> EncodedText[s]]
JsonBool(b) == [t |-> IF b THEN "true" ELSE "false", body |-> <<>>]

\* The JSON object written for one entry.
JsonEntry(e) ==
    [customer_name |-> JsonString(e.customer_name),
     branch_name |-> JsonString(e.branch_name), called |-> JsonBool(e.called),
     followup |-> JsonBool(e.followup), notes |-> JsonString(e.notes),
     user |-> JsonString(e.user), date_updated |-> JsonString(e.date_updated)]

\* What json.load makes of one value: a str, True or False.
LoadedString(v) ==
    IF v.body \in DOMAIN ScannedBody THEN TextOf(ScannedBody[v.body].cps)
    ELSE TextOf(scanstring(v.body).cps)
LoadedBool(v) == v.t = "true"

LoadedEntry(o) ==
    [customer_name |-> LoadedString(o.customer_name),
     branch_name |-> LoadedString(o.branch_name), called |-> LoadedBool(o.called),
     followup |-> LoadedBool(o.followup), notes |-> LoadedString(o.notes),
     user |-> LoadedString(o.user), date_updated |-> LoadedString(o.date_updated)]

JsonStringFields == {"customer_name", "branch_name", "notes", "user", "date_updated"}

----------------------------------------------------------------------------
(* Local JSON file *)

FileMissing == [kind |-> "missing"]

\* A file whose content is not a JSON document (cut short, garbage).
FileCorrupt == [kind |-> "corrupt"]

\* Every key the model's inputs can hold.
KeyUniverse ==
    {pre \o <<"_">> \o cid :
        pre \in {<<"recovery">>, <<"conquest", "_", "sn">>, <<"conquest", "_", "eda">>,
                 <<"parts">>, <<"service">>, <<"consignment">>},
        cid \in {<<"A">>, <<"B">>, <<"Zoë">>, <<"conquest">>, <<"A", "_", "1">>}}

\* A key that is none of KeyUniverse.
OtherKey == <<OtherText>>

\* KeyChars as a table.
KeyCharsTable == [k \in KeyUniverse |-> KeyChars(k)]

\* The key with the given code points.
KeyOf(cps) ==
    LET found == {k \in KeyUniverse : KeyCharsTable[k] = cps}
    IN IF found = {} THEN OtherKey ELSE CHOOSE k \in found : TRUE

\* The JSON string of each key, as a table.
EncodedKey == [k \in KeyUniverse |-> encode_basestring_ascii(KeyCharsTable[k])]

\* json.dump(log, f, indent=2, default=str): one member per key, named by
\* the key's JSON string; every value of an entry is a str or a bool, so
\* default=str is never used.
JsonFile(log) ==
    [kind |-> "json",
     doc |-> {[name |-> EncodedKey[k],
               value |-> JsonEntry(log[k])] : k \in DOMAIN log}]

\* One member of the document from its parts: name is the scanned key, good
\* whether every string value scans.
MemberOf(name, good, value) ==
    [ok |-> name.ok /\ good, key |-> KeyOf(name.cps),
     entry |-> IF name.ok /\ good THEN LoadedEntry(value) ELSE NoEntry]

\* One member of the document as json.load reads it.
LoadedMember(m) ==
    MemberOf(scanstring(m.name),
             \A fld \in JsonStringFields :
                IF m.value[fld].body \in DOMAIN ScannedBody
                THEN ScannedBody[m.value[fld].body].ok
                ELSE scanstring(m.value[fld].body).ok,
             m.value)

\* The dict of the scanned members, an error when one of them did not scan.
json_object(ms) ==
    IF \E m \in ms : ~m.ok THEN [ok |-> FALSE, value |-> EmptyLog]
    ELSE [ok |-> TRUE,
          value |-> [k \in {m.key : m \in ms} |->
                       (CHOOSE m \in ms : m.key = k).entry]]

\* json.load(f): the dict of the document, or an error.
json_load(f) ==
    IF f.kind # "json" THEN [ok |-> FALSE, value |-> EmptyLog]
    ELSE json_object({LoadedMember(m) : m \in f.doc})

\* Variant of load_call_log_local without the try/except around json.load.
load_call_log_local_unguarded(f) ==
    IF f.kind = "missing" THEN [log |-> EmptyLog, raised |-> FALSE]
    ELSE LET r == json_load(f) IN [log |-> r.value, raised |-> ~r.ok]

\* try: return json.load(f) / except: return {}
except_empty(r) == IF r.ok THEN r.value ELSE EmptyLog

\* load_call_log_local(): {} when the file does not exist, and {} when
\* open or json.load raises (bare except); nothing is raised to the caller.
load_call_log_local(f) ==
    IF f.kind = "missing" THEN [log |-> EmptyLog, raised |-> FALSE]
    ELSE [log |-> except_empty(json_load(f)), raised |-> FALSE]

\* How a write of the local file can end: written, open(..., 'w') refused
\* (file untouched), or the dump failing after open truncated the file.
WriteOutcomes == {"ok", "open_fails", "dump_fails"}

\* Variant of save_call_log_local that keeps a file that already exists.
save_call_log_local_keeps_file(f, log, how) ==
    [file |-> CASE how = "ok" -> IF f.kind = "json" THEN f ELSE JsonFile(log)
                [] how = "open_fails" -> f
                [] OTHER -> FileCorrupt,
     raised |-> how # "ok"]

\* save_call_log_local(log): there is no try/except, so a failure is raised to
\* the caller.
save_call_log_local(f, log, how) ==
    [file |-> CASE how = "ok" -> JsonFile(log)
                [] how = "open_fails" -> f
                [] OTHER -> FileCorrupt,
     raised |-> how # "ok"]

----------------------------------------------------------------------------
(* Connection cache *)

\* get_gsheet_connection() under st.cache_resource: a cached result is returned
\* as is (a cached (None, None) too); otherwise the body runs, and up is whether
\* authorising and opening the spreadsheet succeeded.
get_gsheet_connection(cache, up) ==
    IF cache # "empty" THEN cache ELSE IF up THEN "sh" ELSE "None"

\* get_gsheet_connection(), "except Exception as e: st.sidebar.warning(...)":
\* with the gspread import in place (no session is remote-active without it)
\* the except branch is the only way to (None, None), and it draws one warning
\* in the sidebar; st.cache_resource draws it again when it returns the cached
\* result.
sidebar_warning(conn) == IF conn = "None" THEN 1 ELSE 0

----------------------------------------------------------------------------
(* Unified call log interface: the in-memory part of each operation *)

\* Variant of init_call_log without the "call_log is None" test: every script
\* run loads again.
init_call_log_reloading(isLoaded, log, active, conn, rows, readOk, f) ==
    IF conn = "sh"
    THEN [log |-> load_call_log_gsheets(rows, readOk), active |-> TRUE,
          loaded |-> TRUE, raised |-> FALSE]
    ELSE [log |-> load_call_log_local(f).log, active |-> FALSE,
          loaded |-> TRUE, raised |-> FALSE]

\* The else branch of init_call_log: l is what load_call_log_local() gave.
init_call_log_local(l, log, active) ==
    IF l.raised
    THEN [log |-> log, active |-> active, loaded |-> FALSE, raised |-> TRUE]
    ELSE [log |-> l.log, active |-> FALSE, loaded |-> TRUE, raised |-> FALSE]

\* init_call_log(): runs at the top of every script run; it loads only while
\* st.session_state.call_log is None.  conn is what get_gsheet_connection()
\* returns when it is called, readOk whether the remote read answered.  An
\* exception of a loader would leave the function before either assignment.
init_call_log(isLoaded, log, active, conn, rows, readOk, f) ==
    IF isLoaded
    THEN [log |-> log, active |-> active, loaded |-> TRUE, raised |-> FALSE]
    ELSE IF conn = "sh"
    THEN [log |-> load_call_log_gsheets(rows, readOk), active |-> TRUE,
          loaded |-> TRUE, raised |-> FALSE]
    ELSE init_call_log_local(load_call_log_local(f), log, active)

\* Variant of save_entry's assignment that keeps an entry already stored
\* (setdefault instead of assignment).
save_entry_memory_setdefault(log, key, entry) ==
    IF HasKey(log, key) THEN log ELSE DictSet(log, key, entry)

\* save_entry, first line: st.session_state.call_log[log_key] = entry
save_entry_memory(log, key, entry) == DictSet(log, key, entry)

\* delete_entry, first two lines.
delete_entry_memory(log, key) == IF HasKey(log, key) THEN DictDel(log, key) ELSE log

\* refresh_log(): reloads whenever a connection is returned; the flag
\* gsheets_active is not consulted here.
refresh_log(log, conn, rows, readOk) ==
    IF conn = "sh" THEN load_call_log_gsheets(rows, readOk) ELSE log

\* The entry render_row builds from the widgets of a row.
RowEntry(s, key, nc, nf, nn) ==
    [customer_name |-> cname(key), branch_name |-> gbn(s), called |-> nc,
     followup |-> nf, notes |-> nn, user |-> gun(s), date_updated |-> Now]

\* Variant of render_row's test that never takes the delete branch.
KeepsEntry_always(nc, nf, nn) == TRUE

\* render_row: "if nc or nf or nn" chooses save_entry, else delete_entry.
KeepsEntry(nc, nf, nn) == nc \/ nf \/ nn # ""

----------------------------------------------------------------------------
(* Bookkeeping records *)

Idle == [at |-> "idle", key |-> NoKey, entry |-> NoEntry, cell |-> 0, raced |-> FALSE]

\* What the last step was and how it ended.
\*   op     : the operation the step belongs to
\*   done   : the operation returned (or raised) in this step
\*   conn   : what get_gsheet_connection() returned ("na": not called)
\*   remote : outcome of the remote call made in the step ("none": none made)
\*   local  : outcome (WriteOutcomes) of the local file write made in the step
\*   toasts : st.toast notifications emitted by the step
\*   raised : an exception left the operation
\*   raced  : another session wrote the same key between this upsert's find
\*            and its write
Ev(s, op, key, entry, done, conn, remote, local, toasts, raised, raced) ==
    [sess |-> s, op |-> op, key |-> key, entry |-> entry, done |-> done,
     conn |-> conn, remote |-> remote, local |-> local, toasts |-> toasts,
     raised |-> raised, raced |-> raced]

NoEv == Ev("none", "none", NoKey, NoEntry, TRUE, "na", "none", "none", 0, FALSE, FALSE)

IsIdle(s) == pc[s].at = "idle"

\* Another session's pending upsert of the same key has now been overtaken.
MarkRaced(p, s, key) ==
    [t \in Sessions |->
        IF t # s /\ p[t].at = "save" /\ p[t].key = key
        THEN [p[t] EXCEPT !.raced = TRUE] ELSE p[t]]

----------------------------------------------------------------------------
(* Initial state: nothing loaded, an empty worksheet, no local file yet *)

Init ==
    /\ sheet = <<>>
    /\ file = FileMissing
    /\ connCache = "empty"
    /\ loaded = [s \in Sessions |-> FALSE]
    /\ call_log = [s \in Sessions |-> EmptyLog]
    /\ gsheets_active = [s \in Sessions |-> FALSE]
    /\ pc = [s \in Sessions |-> Idle]
    /\ edits = 0
    /\ last = NoEv
    /\ dataset = CampaignData

----------------------------------------------------------------------------
(* Actions *)

\* First script run of a session: init_call_log() with call_log None.
Initialize(s) ==
    /\ ~loaded[s]
    /\ \E up \in BOOLEAN, readOk \in BOOLEAN :
         LET conn == get_gsheet_connection(connCache, up)
         IN \E r \in {init_call_log(FALSE, call_log[s], gsheets_active[s], conn,
                                    sheet, readOk, file)} :
            /\ connCache' = conn
            /\ loaded' = [loaded EXCEPT ![s] = r.loaded]
            /\ call_log' = [call_log EXCEPT ![s] = r.log]
            /\ gsheets_active' = [gsheets_active EXCEPT ![s] = r.active]
            /\ last' = Ev(s, "init", NoKey, NoEntry, TRUE, conn,
                          IF conn = "sh" THEN (IF readOk THEN "ok" ELSE "fail")
                          ELSE "none",
                          "none", 0, r.raised, FALSE)
    /\ UNCHANGED <<sheet, file, pc, edits, dataset>>

\* A later script run with no widget change: init_call_log() again, which
\* calls nothing once call_log is set.
Rerun(s) ==
    /\ loaded[s]
    /\ IsIdle(s)
    /\ \E up \in BOOLEAN, readOk \in BOOLEAN :
         LET conn == get_gsheet_connection(connCache, up)
         IN \E r \in {init_call_log(TRUE, call_log[s], gsheets_active[s], conn,
                                    sheet, readOk, file)} :
            /\ call_log' = [call_log EXCEPT ![s] = r.log]
            /\ gsheets_active' = [gsheets_active EXCEPT ![s] = r.active]
    /\ last' = Ev(s, "rerun", NoKey, NoEntry, TRUE, "na", "none", "none", 0,
                  FALSE, FALSE)
    /\ UNCHANGED <<sheet, file, connCache, loaded, pc, edits, dataset>>

\* The cached connection's ttl (300 s) runs out.
CacheExpire ==
    /\ connCache # "empty"
    /\ connCache' = "empty"
    /\ last' = NoEv
    /\ UNCHANGED <<sheet, file, loaded, call_log, gsheets_active, pc, edits, dataset>>

\* except-handler of save_entry_gsheets: st.toast("Save error: ...") once.
save_entry_gsheets_except(ok) == IF ok THEN 0 ELSE 1

\* except-handler of delete_entry_gsheets: "pass".
delete_entry_gsheets_except(ok) == 0

\* Variant of save_entry_gsheets that appends without looking at ws.find.
save_entry_gsheets_write_appends(rows, cell, key, entry) ==
    ws_append_row(rows, RowData(key, entry))

\* save_entry_gsheets after ws.find: update the found row by its position, or
\* append when nothing was found.
save_entry_gsheets_write(rows, cell, key, entry) ==
    IF cell > 0 THEN ws_update(rows, cell, RowData(key, entry))
    ELSE ws_append_row(rows, RowData(key, entry))

\* delete_entry_gsheets after ws.find: "if cell: ws.delete_rows(cell.row)".
delete_entry_gsheets_write(rows, cell) ==
    IF cell > 0 THEN ws_delete_rows(rows, cell) ELSE rows

\* delete_entry(log_key) as a whole when every call it makes succeeds: the
\* in-memory removal, then the remote row removal (remote-active) or the
\* rewrite of the local file (local-active).  st is [log, rows, file].
delete_entry(st, key, active) ==
    LET mem == delete_entry_memory(st.log, key)
    IN IF active
       THEN [log |-> mem,
             rows |-> delete_entry_gsheets_write(st.rows, ws_find(st.rows, key)),
             file |-> st.file]
       ELSE [log |-> mem, rows |-> st.rows,
             file |-> save_call_log_local(st.file, mem, "ok").file]

\* save_entry(log_key, entry) up to and including ws.find.
SaveEntry(s, key, entry) ==
    LET mem == save_entry_memory(call_log[s], key, entry)
    IN /\ call_log' = [call_log EXCEPT ![s] = mem]
       /\ sheet' = sheet
       /\ IF gsheets_active[s]
          THEN \E up \in BOOLEAN, findOk \in BOOLEAN :
                 LET conn == get_gsheet_connection(connCache, up)
                 IN /\ connCache' = conn
                    /\ file' = file
                    /\ IF conn # "sh"
                       THEN /\ pc' = pc
                            /\ last' = Ev(s, "upsert", key, entry, TRUE, conn,
                                          "none", "none", 0, FALSE, FALSE)
                       ELSE IF ~findOk
                       THEN /\ pc' = pc
                            /\ last' = Ev(s, "upsert", key, entry, TRUE, conn,
                                          "fail", "none",
                                          save_entry_gsheets_except(FALSE),
                                          FALSE, FALSE)
                       ELSE /\ pc' = [pc EXCEPT ![s] =
                                        [at |-> "save", key |-> key,
                                         entry |-> entry,
                                         cell |-> ws_find(sheet, key),
                                         raced |-> FALSE]]
                            /\ last' = Ev(s, "upsert", key, entry, FALSE, conn,
                                          "ok", "none", 0, FALSE, FALSE)
          ELSE \E how \in WriteOutcomes :
                 LET w == save_call_log_local(file, mem, how)
                 IN /\ file' = w.file
                    /\ last' = Ev(s, "upsert", key, entry, TRUE, "na", "none",
                                  how, 0, w.raised,
                                  FALSE)
                    /\ UNCHANGED <<connCache, pc>>

\* delete_entry(log_key) up to and including ws.find.
DeleteEntry(s, key) ==
    LET mem == delete_entry_memory(call_log[s], key)
    IN /\ call_log' = [call_log EXCEPT ![s] = mem]
       /\ sheet' = sheet
       /\ IF gsheets_active[s]
          THEN \E up \in BOOLEAN, findOk \in BOOLEAN :
                 LET conn == get_gsheet_connection(connCache, up)
                     cell == ws_find(sheet, key)
                 IN /\ connCache' = conn
                    /\ file' = file
                    /\ IF conn # "sh"
                       THEN /\ pc' = pc
                            /\ last' = Ev(s, "delete", key, NoEntry, TRUE, conn,
                                          "none", "none", 0, FALSE, FALSE)
                       ELSE IF ~findOk
                       THEN /\ pc' = pc
                            /\ last' = Ev(s, "delete", key, NoEntry, TRUE, conn,
                                          "fail", "none",
                                          delete_entry_gsheets_except(FALSE),
                                          FALSE, FALSE)
                       ELSE IF cell = 0
                       THEN /\ pc' = pc
                            /\ last' = Ev(s, "delete", key, NoEntry, TRUE, conn,
                                          "ok", "none", 0, FALSE, FALSE)
                       ELSE /\ pc' = [pc EXCEPT ![s] =
                                        [at |-> "delete", key |-> key,
                                         entry |-> NoEntry, cell |-> cell,
                                         raced |-> FALSE]]
                            /\ last' = Ev(s, "delete", key, NoEntry, FALSE, conn,
                                          "ok", "none", 0, FALSE, FALSE)
          ELSE \E how \in WriteOutcomes :
                 LET w == save_call_log_local(file, mem, how)
                 IN /\ file' = w.file
                    /\ last' = Ev(s, "delete", key, NoEntry, TRUE, "na", "none",
                                  how, 0, w.raised,
                                  FALSE)
                    /\ UNCHANGED <<connCache, pc>>

\* The widgets of a row: one user interaction changes one of them and starts
\* a script run (the two checkboxes and the notes box of render_row).
Widgets == {"called", "followup", "notes"}

\* render_row: the user changed a checkbox or the notes of one row.
RenderRowEdit(s) ==
    /\ loaded[s]
    /\ IsIdle(s)
    /\ edits < MaxEdits
    /\ edits' = edits + 1
    /\ UNCHANGED <<loaded, gsheets_active, dataset>>
    /\ \E key \in Keys, w \in Widgets, text \in NoteTexts :
         LET ic == GetCalled(call_log[s], key)
             ifu == GetFollowup(call_log[s], key)
             sn == GetNotes(call_log[s], key)
             nc == IF w = "called" THEN ~ic ELSE ic
             nf == IF w = "followup" THEN ~ifu ELSE ifu
             nn == IF w = "notes" THEN text ELSE sn
         IN /\ nc # ic \/ nf # ifu \/ nn # sn
            /\ IF KeepsEntry(nc, nf, nn)
               THEN SaveEntry(s, key, RowEntry(s, key, nc, nf, nn))
               ELSE DeleteEntry(s, key)

\* Variant of SaveWrite in which a failed write stays pending, so that it is
\* sent again.
SaveWrite_retrying(s) ==
    /\ pc[s].at = "save"
    /\ \E ok \in BOOLEAN :
         /\ sheet' = IF ok
                     THEN save_entry_gsheets_write(sheet, pc[s].cell, pc[s].key,
                                                   pc[s].entry)
                     ELSE sheet
         /\ pc' = IF ok
                  THEN MarkRaced([pc EXCEPT ![s] = Idle], s, pc[s].key)
                  ELSE pc
         /\ last' = Ev(s, "upsert", pc[s].key, pc[s].entry, TRUE, "sh",
                       IF ok THEN "ok" ELSE "fail", "none",
                       save_entry_gsheets_except(ok), FALSE, pc[s].raced)
    /\ UNCHANGED <<file, connCache, loaded, call_log, gsheets_active, edits, dataset>>

\* save_entry_gsheets, second remote call: ws.update or ws.append_row.
SaveWrite(s) ==
    /\ pc[s].at = "save"
    /\ \E ok \in BOOLEAN :
         /\ sheet' = IF ok
                     THEN save_entry_gsheets_write(sheet, pc[s].cell, pc[s].key,
                                                   pc[s].entry)
                     ELSE sheet
         /\ pc' = IF ok
                  THEN MarkRaced([pc EXCEPT ![s] = Idle], s, pc[s].key)
                  ELSE [pc EXCEPT ![s] = Idle]
         /\ last' = Ev(s, "upsert", pc[s].key, pc[s].entry, TRUE, "sh",
                       IF ok THEN "ok" ELSE "fail", "none",
                       save_entry_gsheets_except(ok), FALSE, pc[s].raced)
    /\ UNCHANGED <<file, connCache, loaded, call_log, gsheets_active, edits, dataset>>

\* delete_entry_gsheets, second remote call: ws.delete_rows.
DeleteRows(s) ==
    /\ pc[s].at = "delete"
    /\ \E ok \in BOOLEAN :
         /\ sheet' = IF ok THEN delete_entry_gsheets_write(sheet, pc[s].cell)
                     ELSE sheet
         /\ last' = Ev(s, "delete", pc[s].key, NoEntry, TRUE, "sh",
                       IF ok THEN "ok" ELSE "fail", "none",
                       delete_entry_gsheets_except(ok), FALSE, FALSE)
    /\ pc' = [pc EXCEPT ![s] = Idle]
    /\ UNCHANGED <<file, connCache, loaded, call_log, gsheets_active, edits, dataset>>

\* show_admin: the "Refresh from Sheets" button, drawn only while
\* st.session_state.gsheets_active; a click calls refresh_log().
RefreshClick(s) ==
    /\ loaded[s]
    /\ IsIdle(s)
    /\ gsheets_active[s]
    /\ edits < MaxEdits
    /\ edits' = edits + 1
    /\ \E up \in BOOLEAN, readOk \in BOOLEAN :
         LET conn == get_gsheet_connection(connCache, up)
         IN /\ connCache' = conn
            /\ call_log' = [call_log EXCEPT ![s] =
                              refresh_log(call_log[s], conn, sheet, readOk)]
            /\ last' = Ev(s, "refresh", NoKey, NoEntry, TRUE, conn,
                          IF conn = "sh" THEN (IF readOk THEN "ok" ELSE "fail")
                          ELSE "none",
                          "none", 0, FALSE, FALSE)
    /\ UNCHANGED <<sheet, file, loaded, gsheets_active, pc, dataset>>

Next ==
    \/ \E s \in Sessions : Initialize(s)
    \/ \E s \in Sessions : Rerun(s)
    \/ \E s \in Sessions : RenderRowEdit(s)
    \/ \E s \in Sessions : SaveWrite(s)
    \/ \E s \in Sessions : DeleteRows(s)
    \/ \E s \in Sessions : RefreshClick(s)
    \/ CacheExpire

Spec == Init /\ [][Next]_vars

----------------------------------------------------------------------------
(* The local backend on its own: saveAll(m), then loadAll() *)

\* Keys of the saved mappings; the recovery campaign keys a row by the
\* customer's name.
LocalKeys == {LogKey(PrefixRecovery, <<"A">>), LogKey(PrefixRecovery, <<"Zoë">>)}

\* Entries of the LogEntry shape: every field a str or a bool, with empty
\* strings, quotes, backslashes, a tab and non-ASCII letters among them.
ShapeEntries ==
    [customer_name : {"", "Zoë", "\\u00eb"}, branch_name : {"Dublin"},
     called : BOOLEAN, followup : BOOLEAN, notes : {"", "q\"\\", "a\tb"},
     user : {"Pat"}, date_updated : {Now}]
    \cup {[customer_name |-> "", branch_name |-> "", called |-> FALSE,
           followup |-> FALSE, notes |-> "", user |-> "", date_updated |-> ""]}

\* The mappings m.
LocalMappings ==
    UNION {[ks -> ShapeEntries] : ks \in SUBSET LocalKeys}

InitLocal ==
    /\ sheet = <<>>
    /\ file = FileMissing
    /\ connCache = "None"
    /\ loaded = [s \in Sessions |-> s = "s1"]
    /\ call_log \in {[s \in Sessions |-> IF s = "s1" THEN m ELSE EmptyLog] :
                        m \in LocalMappings}
    /\ gsheets_active = [s \in Sessions |-> FALSE]
    /\ pc = [s \in Sessions |-> Idle]
    /\ edits = 0
    /\ last = NoEv
    /\ dataset = CampaignData

\* saveAll(m): save_call_log_local(m), the write succeeding.
SaveAll(s) ==
    /\ loaded[s]
    /\ last.op = "none"
    /\ LET w == save_call_log_local(file, call_log[s], "ok")
       IN /\ file' = w.file
          /\ last' = Ev(s, "saveAll", NoKey, NoEntry, TRUE, "na", "none", "ok", 0,
                        w.raised, FALSE)
    /\ UNCHANGED <<sheet, connCache, loaded, call_log, gsheets_active, pc, edits,
                   dataset>>

\* loadAll(): load_call_log_local() into a session that holds nothing yet.
LoadAll(s) ==
    /\ ~loaded[s]
    /\ last.op = "saveAll"
    /\ LET l == load_call_log_local(file)
       IN /\ call_log' = [call_log EXCEPT ![s] = l.log]
          /\ last' = Ev(s, "loadAll", NoKey, NoEntry, TRUE, "na", "none", "none", 0,
                        l.raised, FALSE)
    /\ loaded' = [loaded EXCEPT ![s] = TRUE]
    /\ UNCHANGED <<sheet, file, connCache, gsheets_active, pc, edits, dataset>>

NextLocal == SaveAll("s1") \/ LoadAll("s2")

SpecLocal == InitLocal /\ [][NextLocal]_vars

----------------------------------------------------------------------------
(* Admin view: aggregates over the call log *)

\* sorted(BRANCHES.values()), the two branches the model's sessions use.
Branches == {"Dublin", "Heath"}

\* s.strip() on the notes the model holds.
Strip(s) == IF s = " " THEN "" ELSE s

\* s.title() on the words a key can start with.
Title(s) ==
    CASE s = "recovery" -> "Recovery"
      [] s = "conquest" -> "Conquest"
      [] s = "parts" -> "Parts"
      [] s = "service" -> "Service"
      [] s = "consignment" -> "Consignment"
      [] OTHER -> s

\* Recent activity: cpx = k.split('_')[0];
\* cpx = 'Conquest' if 'conquest' in k else cpx.title()
FeedCampaign(key) ==
    IF ContainsConquest(key) THEN <<"Conquest">>
    ELSE [i \in 1..Len(SplitFirst(key)) |-> Title(SplitFirst(key)[i])]

\* Branch activity of one branch: bc, bf, bnn, bu.
BranchActivity(log, brn) ==
    [calls |-> Cardinality({k \in DOMAIN log :
                   log[k].called /\ log[k].branch_name = brn}),
     followups |-> Cardinality({k \in DOMAIN log :
                   log[k].followup /\ log[k].branch_name = brn}),
     notes |-> Cardinality({k \in DOMAIN log :
                   Strip(log[k].notes) # "" /\ log[k].branch_name = brn}),
     users |-> Cardinality({log[k].user : k \in
                   {j \in DOMAIN log : log[j].branch_name = brn /\ log[j].user # ""}})]

\* Recent activity: one row per called entry, with its campaign label.
RecentActivity(log) ==
    {[key |-> k, campaign |-> FeedCampaign(k)] : k \in {j \in DOMAIN log : log[j].called}}

\* The branch column of a dataset row: customer B is a Heath customer, every
\* other customer of the model a Dublin one.
RowBranch(cid) == IF cid = <<"B">> THEN "Heath" ELSE "Dublin"

\* len(df[df['branch']==brn]) for one data file.
BranchRows(rows, brn) ==
    Cardinality({i \in 1..Len(rows) : RowBranch(rows[i]) = brn})

\* Branch activity, Targets: tt = rt + st2 + et + pt + ct2, the rows of the
\* branch in the recovery, conquest SN, conquest EDA, parts and consignment
\* files.
BranchTargets(data, brn) ==
    BranchRows(data.recovery, brn) + BranchRows(data.conquest_sn, brn)
      + BranchRows(data.conquest_eda, brn) + BranchRows(data.parts, brn)
      + BranchRows(data.consignment, brn)

\* show_admin(): v.get('notes','').strip() is evaluated for every entry, so
\* notes that are not a str (an int read back from the worksheet) raise
\* AttributeError and the page is not drawn.
show_admin(s, log, data) ==
    IF \E k \in DOMAIN log : log[k].notes \in PyInts
    THEN [sess |-> s, op |-> "admin", raised |-> TRUE,
          branch |-> [b \in Branches |-> BranchActivity(EmptyLog, b)],
          targets |-> [b \in Branches |-> 0], recent |-> {}]
    ELSE [sess |-> s, op |-> "admin", raised |-> FALSE,
          branch |-> [b \in Branches |-> BranchActivity(log, b)],
          targets |-> [b \in Branches |-> BranchTargets(data, b)],
          recent |-> RecentActivity(log)]

----------------------------------------------------------------------------
(* One session, every call succeeding: upserts, reloads and the admin view *)

\* Dataset rows behind the edited keys: campaign prefix and customer id.
OpsRows ==
    {[prefix |-> PrefixRecovery, cid |-> <<"A">>],
     [prefix |-> PrefixConquestSn, cid |-> <<"B">>],
     [prefix |-> PrefixRecovery, cid |-> <<"conquest">>],
     [prefix |-> <<"service">>, cid |-> <<"A", "_", "1">>]}

\* Entries a row edit can build (the name and branch columns of the row, the
\* two checkboxes, the notes box, the user name typed at login).
OpsEntries ==
    {[customer_name |-> "A", branch_name |-> "Dublin", called |-> TRUE,
      followup |-> FALSE, notes |-> "", user |-> "Pat", date_updated |-> Now],
     [customer_name |-> "B", branch_name |-> "Heath", called |-> FALSE,
      followup |-> TRUE, notes |-> "vm", user |-> "Sam", date_updated |-> Now],
     [customer_name |-> "A", branch_name |-> "Dublin", called |-> FALSE,
      followup |-> FALSE, notes |-> " ", user |-> "Sam", date_updated |-> Now],
     [customer_name |-> "B", branch_name |-> "Dublin", called |-> TRUE,
      followup |-> TRUE, notes |-> "42", user |-> "", date_updated |-> Now]}

\* The data files of the deployment: the rows behind Keys, with or without
\* the service row behind service_A_1.
OpsDatasets ==
    {CampaignData, [CampaignData EXCEPT !.service = << <<"A", "_", "1">> >>]}

\* A worksheet row somebody typed without a key.
KeylessRow ==
    [log_key |-> NoKey, customer_name |-> "A", branch_name |-> "Dublin",
     called |-> "TRUE", followup |-> "", notes |-> "vm", user |-> "Pat",
     date_updated |-> Now, campaign |-> <<"recovery">>]

\* save_entry(log_key, entry) as a whole when every call it makes succeeds.
\* st is [log, rows, file].
save_entry(st, key, entry, active) ==
    LET mem == save_entry_memory(st.log, key, entry)
    IN IF active
       THEN [log |-> mem,
             rows |-> save_entry_gsheets_write(st.rows, ws_find(st.rows, key),
                                               key, entry),
             file |-> st.file]
       ELSE [log |-> mem, rows |-> st.rows,
             file |-> save_call_log_local(st.file, mem, "ok").file]

InitOps ==
    /\ \E active \in BOOLEAN :
         /\ gsheets_active = [s \in Sessions |-> s = "s1" /\ active]
         /\ connCache = IF active THEN "sh" ELSE "None"
         /\ sheet \in IF active THEN {<<>>, <<KeylessRow>>} ELSE {<<>>}
    /\ file = FileMissing
    /\ loaded = [s \in Sessions |-> s = "s1"]
    /\ call_log = [s \in Sessions |-> EmptyLog]
    /\ pc = [s \in Sessions |-> Idle]
    /\ edits = 0
    /\ last = NoEv
    /\ dataset \in OpsDatasets

\* A row edit that ends in save_entry.
OpsUpsert(s) ==
    /\ loaded[s]
    /\ edits < MaxEdits
    /\ edits' = edits + 1
    /\ \E row \in OpsRows, entry \in OpsEntries :
         LET key == LogKey(row.prefix, row.cid)
             r == save_entry([log |-> call_log[s], rows |-> sheet, file |-> file],
                             key, entry, gsheets_active[s])
         IN /\ call_log' = [call_log EXCEPT ![s] = r.log]
            /\ sheet' = r.rows
            /\ file' = r.file
            /\ last' = Ev(s, "upsert", key, entry, TRUE,
                          IF gsheets_active[s] THEN "sh" ELSE "na",
                          IF gsheets_active[s] THEN "ok" ELSE "none",
                          IF gsheets_active[s] THEN "none" ELSE "ok",
                          0, FALSE, FALSE)
    /\ UNCHANGED <<connCache, loaded, gsheets_active, pc, dataset>>

\* A row edit that ends in delete_entry: the row had an entry and every
\* widget of it was cleared.
OpsDelete(s) ==
    /\ loaded[s]
    /\ edits < MaxEdits
    /\ edits' = edits + 1
    /\ \E row \in OpsRows :
         LET key == LogKey(row.prefix, row.cid)
             r == delete_entry([log |-> call_log[s], rows |-> sheet, file |-> file],
                               key, gsheets_active[s])
         IN /\ HasKey(call_log[s], key)
            /\ call_log' = [call_log EXCEPT ![s] = r.log]
            /\ sheet' = r.rows
            /\ file' = r.file
            /\ last' = Ev(s, "delete", key, NoEntry, TRUE,
                          IF gsheets_active[s] THEN "sh" ELSE "na",
                          IF gsheets_active[s] THEN "ok" ELSE "none",
                          IF gsheets_active[s] THEN "none" ELSE "ok",
                          0, FALSE, FALSE)
    /\ UNCHANGED <<connCache, loaded, gsheets_active, pc, dataset>>

\* loadAll() of the remote backend: the Refresh button.
OpsLoadAll(s) ==
    /\ loaded[s]
    /\ gsheets_active[s]
    /\ call_log' = [call_log EXCEPT ![s] = refresh_log(call_log[s], "sh", sheet, TRUE)]
    /\ last' = Ev(s, "refresh", NoKey, NoEntry, TRUE, "sh", "ok", "none", 0,
                  FALSE, FALSE)
    /\ UNCHANGED <<sheet, file, connCache, loaded, gsheets_active, pc, edits, dataset>>

\* The admin page is drawn.
OpsShowAdmin(s) ==
    /\ loaded[s]
    /\ last' = show_admin(s, call_log[s], dataset)
    /\ UNCHANGED <<sheet, file, connCache, loaded, call_log, gsheets_active, pc,
                   edits, dataset>>

NextOps ==
    \/ OpsUpsert("s1")
    \/ OpsDelete("s1")
    \/ OpsLoadAll("s1")
    \/ OpsShowAdmin("s1")

SpecOps == InitOps /\ [][NextOps]_vars

----------------------------------------------------------------------------
(* Progress percent: int(called / total * 100) in binary64 arithmetic *)

\* Bits of a binary64 significand.
MantBits == 53

\* Bits of one limb of the long division and multiplication, and 2^LimbBits.
LimbBits == 13
LimbBase == 8192

\* Limbs that hold a significand, its guard bit and some more.
QuotientLimbs == 5

\* A float is [m, e]: m the significand, MantBits bits, most significant
\* first and leading bit 1; e the binary exponent of the leading bit.
Zeros(n) == [i \in 1..n |-> 0]

\* The value of a short bit sequence.
RECURSIVE BitsValue(_)
BitsValue(bits) ==
    IF bits = <<>> THEN 0
    ELSE 2 * BitsValue(SubSeq(bits, 1, Len(bits) - 1)) + bits[Len(bits)]

\* v as n bits, and v as the bits it needs.
RECURSIVE ToBitsN(_, _)
ToBitsN(v, n) == IF n = 0 THEN <<>> ELSE ToBitsN(v \div 2, n - 1) \o <<v % 2>>

RECURSIVE ToBits(_)
ToBits(v) == IF v = 0 THEN <<>> ELSE ToBits(v \div 2) \o <<v % 2>>

RECURSIVE StripZeros(_)
StripZeros(bits) ==
    IF bits # <<>> /\ bits[1] = 0 THEN StripZeros(Tail(bits)) ELSE bits

\* The next n limbs of quotient bits of r / t (r < t) and the remainder left
\* after them.
RECURSIVE DivBits(_, _, _)
DivBits(r, t, n) ==
    IF n = 0 THEN [bits |-> <<>>, rem |-> r]
    ELSE LET d == DivBits((r * LimbBase) % t, t, n - 1)
         IN [bits |-> ToBitsN((r * LimbBase) \div t, LimbBits) \o d.bits,
             rem |-> d.rem]

\* Skip the leading zero bits of r / t: k is the position of the first 1 bit,
\* r the remainder whose next quotient bit it is.
RECURSIVE Normalise(_, _, _)
Normalise(r, t, k) ==
    IF 2 * r >= t THEN [r |-> r, k |-> k] ELSE Normalise(2 * r, t, k + 1)

\* bits * k + carry, exactly, one limb at a time from the low end.
RECURSIVE MulSmall(_, _, _)
MulSmall(bits, k, carry) ==
    IF bits = <<>> THEN ToBits(carry)
    ELSE LET n == Len(bits)
             w == IF n < LimbBits THEN n ELSE LimbBits
             p == BitsValue(SubSeq(bits, n - w + 1, n)) * k + carry
         IN MulSmall(SubSeq(bits, 1, n - w), k, p \div LimbBase)
               \o ToBitsN(p % LimbBase, LimbBits)

\* Round to nearest, ties to even: bits has a leading 1 and more than MantBits
\* bits, sticky tells whether anything non-zero was already dropped below.
RoundNearestEven(bits, sticky, e) ==
    LET top == SubSeq(bits, 1, MantBits)
        guard == bits[MantBits + 1]
        rest == sticky \/ \E i \in (MantBits + 2)..Len(bits) : bits[i] = 1
        up == guard = 1 /\ (rest \/ top[MantBits] = 1)
        inc == StripZeros(MulSmall(top, 1, 1))
    IN IF ~up THEN [m |-> top, e |-> e]
       ELSE IF Len(inc) = MantBits THEN [m |-> inc, e |-> e]
       ELSE [m |-> SubSeq(inc, 1, MantBits), e |-> e + 1]

\* c / t for ints 0 < c <= t: the correctly rounded quotient. The quotient
\* bits of n.r / t start with the leading 1.
float_div(c, t) ==
    IF c = t THEN [m |-> <<1>> \o Zeros(MantBits - 1), e |-> 0]
    ELSE LET n == Normalise(c, t, 1)
             d == DivBits(n.r, t, QuotientLimbs)
         IN RoundNearestEven(d.bits, d.rem # 0, 0 - n.k)

\* x * 100: the exact product of the significand, rounded once.
float_mul100(x) ==
    LET p == StripZeros(MulSmall(x.m, 100, 0))
    IN RoundNearestEven(p, FALSE, x.e + Len(p) - MantBits)

\* int(x): truncation toward zero of a positive float.
int_of_float(x) == IF x.e < 0 THEN 0 ELSE BitsValue(SubSeq(x.m, 1, x.e + 1))

\* pp = int(cc/tt*100) if tt>0 else 0
progress_percent(cc, tt) ==
    IF tt > 0
    THEN IF cc = 0 THEN 0 ELSE int_of_float(float_mul100(float_div(cc, tt)))
    ELSE 0

----------------------------------------------------------------------------
(* Campaign progress over a dataset of any size *)

\* Largest number of rows of the recovery data file.
MaxRows == 50

\* Data files and the key prefix of the rows of each.
DataFiles == {"recovery", "conquest_sn", "conquest_eda", "parts", "service", "consignment"}

PrefixOf(name) ==
    CASE name = "conquest_sn" -> PrefixConquestSn
      [] name = "conquest_eda" -> <<"conquest", "_", "eda">>
      [] OTHER -> <<name>>

\* lc(prefix, df, id_col), and cc in show_admin: the rows of the data file
\* whose key f"{prefix}_{id}" has a log entry with a truthy called.
lc(log, prefix, rows) ==
    Cardinality({i \in 1..Len(rows) :
        /\ HasKey(log, LogKey(prefix, rows[i]))
        /\ log[LogKey(prefix, rows[i])].called})

\* One line of progress: total, called, remaining and the percent.
Progress(tt, cc) ==
    [total |-> tt, called |-> cc, remaining |-> tt - cc,
     progress |-> progress_percent(cc, tt)]

\* show_admin(), Campaign Progress: one line per data file.
campaign_progress(log, data) ==
    [name \in DataFiles |->
        Progress(Len(data[name]), lc(log, PrefixOf(name), data[name]))]

\* show_cards(): one card per campaign, the two conquest files on one card.
CardKeys == {"recovery", "conquest", "parts", "service", "consignment"}

cards_progress(log, data) ==
    [name \in CardKeys |->
        IF name = "conquest"
        THEN Progress(Len(data.conquest_sn) + Len(data.conquest_eda),
                      lc(log, PrefixOf("conquest_sn"), data.conquest_sn)
                        + lc(log, PrefixOf("conquest_eda"), data.conquest_eda))
        ELSE Progress(Len(data[name]), lc(log, PrefixOf(name), data[name]))]

\* The log of a session that has called the first c recovery customers and
\* set a follow-up, without a call, for the next one; conquest_sn B as given.
ProgressEntry(called) ==
    [customer_name |-> "A", branch_name |-> "Dublin", called |-> called,
     followup |-> ~called, notes |-> "", user |-> "Pat", date_updated |-> Now]

ProgressLog(n, c, b) ==
    LET touched == IF c < n THEN c + 1 ELSE c
        keys == {LogKey(PrefixRecovery, <<ToString(i)>>) : i \in 1..touched}
                  \cup {LogKey(PrefixConquestSn, <<"B">>)}
    IN [k \in keys |->
          IF k = LogKey(PrefixConquestSn, <<"B">>) THEN ProgressEntry(b)
          ELSE ProgressEntry(\E i \in 1..c : k = LogKey(PrefixRecovery, <<ToString(i)>>))]

InitProgress ==
    /\ \E n \in 0..MaxRows : \E c \in 0..n : \E b \in BOOLEAN :
         /\ dataset = [CampaignData EXCEPT
                         !.recovery = [i \in 1..n |-> <<ToString(i)>>]]
         /\ call_log = [s \in Sessions |->
                          IF s = "s1" THEN ProgressLog(n, c, b) ELSE EmptyLog]
    /\ sheet = <<>>
    /\ file = FileMissing
    /\ connCache = "None"
    /\ loaded = [s \in Sessions |-> s = "s1"]
    /\ gsheets_active = [s \in Sessions |-> FALSE]
    /\ pc = [s \in Sessions |-> Idle]
    /\ edits = 0
    /\ last = NoEv

\* The admin page draws its Campaign Progress table.
ShowCampaignProgress(s) ==
    /\ loaded[s]
    /\ last' = [sess |-> s, op |-> "admin_progress", raised |-> FALSE,
                stats |-> campaign_progress(call_log[s], dataset)]
    /\ UNCHANGED <<sheet, file, connCache, loaded, call_log, gsheets_active, pc,
                   edits, dataset>>

\* The landing page draws its campaign cards.
ShowCards(s) ==
    /\ loaded[s]
    /\ last' = [sess |-> s, op |-> "cards", raised |-> FALSE,
                stats |-> cards_progress(call_log[s], dataset)]
    /\ UNCHANGED <<sheet, file, connCache, loaded, call_log, gsheets_active, pc,
                   edits, dataset>>

NextProgress == ShowCampaignProgress("s1") \/ ShowCards("s1")

SpecProgress == InitProgress /\ [][NextProgress]_vars

----------------------------------------------------------------------------
(* Two remote-active sessions, each editing a key of its own *)

\* The row each session works on: two users, two different customers.
RowOf(s) ==
    IF s = "s1" THEN LogKey(PrefixRecovery, <<"A">>)
    ELSE LogKey(PrefixConquestSn, <<"B">>)

\* The worksheet after each session has logged its customer once, in either
\* order of arrival (save_entry_gsheets appends a key it does not find).
RaceSheets ==
    {<<RowData(RowOf(a), RowEntry(a, RowOf(a), TRUE, FALSE, n)),
       RowData(RowOf(b), RowEntry(b, RowOf(b), FALSE, TRUE, m))>> :
        <<a, b>> \in {p \in Sessions \X Sessions : p[1] # p[2]},
        n \in NoteTexts, m \in NoteTexts}

\* Both sessions were initialised from the worksheet (init_call_log with a
\* connection) and no call is in flight.
InitRace ==
    /\ sheet \in RaceSheets
    /\ file = FileMissing
    /\ connCache = "sh"
    /\ loaded = [s \in Sessions |-> TRUE]
    /\ call_log = [s \in Sessions |-> load_call_log_gsheets(sheet, TRUE)]
    /\ gsheets_active = [s \in Sessions |-> TRUE]
    /\ pc = [s \in Sessions |-> Idle]
    /\ edits = 0
    /\ last = NoEv
    /\ dataset = CampaignData

\* render_row of the session's own row: a widget of that row changed.
RaceEdit(s) == RenderRowEdit(s) /\ last'.key = RowOf(s)

NextRace ==
    \/ \E s \in Sessions : RaceEdit(s)
    \/ \E s \in Sessions : SaveWrite(s)
    \/ \E s \in Sessions : DeleteRows(s)

SpecRace == InitRace /\ [][NextRace]_vars

----------------------------------------------------------------------------
(* Properties *)

\* Rows of the worksheet that carry a key.
RowsOf(key) == {i \in 1..Len(sheet) : sheet[i].log_key = key}

\* At least one of called, followup, non-empty notes.
Truthy(e) == e.called \/ e.followup \/ e.notes # ""

\* C1: an upsert(key, e), in either backend mode and also when its remote
\* write fails, leaves get(key) = e in the same session: whenever the last
\* step belongs to an upsert, the session's mapping holds e under the key.
C1_UpsertThenGet ==
    last.op = "upsert" =>
        /\ Truthy(last.entry)
        /\ HasKey(call_log[last.sess], last.key)
        /\ call_log[last.sess][last.key] = last.entry

\* C1 witness: a remote-active upsert whose remote write failed has returned.
C1_Witness_FailedRemoteWrite ==
    /\ last.op = "upsert"
    /\ last.done
    /\ last.conn = "sh"
    /\ last.remote = "fail"
    /\ gsheets_active[last.sess]

\* C2: every entry of every session's call log has called, followup or
\* non-empty notes; an edit that clears all three ends in delete(key) with the
\* key absent from the mapping.
C2_EntryIffTruthy ==
    /\ \A s \in Sessions : \A k \in DOMAIN call_log[s] : Truthy(call_log[s][k])
    /\ last.op = "delete" => ~HasKey(call_log[last.sess], last.key)

\* C2 witness: an edit cleared the last truthy field of a stored entry and the
\* delete it led to has returned.
C2_Witness_ClearedRow ==
    /\ last.op = "delete"
    /\ last.done
    /\ ~HasKey(call_log[last.sess], last.key)

\* C3: when the connection fails during initialize() the store is
\* local-active with the locally persisted mapping, and every later upsert and
\* delete of that session completes against the local file.
C3_FallbackCompletes ==
    /\ (last.op = "init" /\ last.conn = "None") =>
          /\ ~gsheets_active[last.sess]
          /\ call_log[last.sess] = load_call_log_local(file).log
    /\ (last.op \in {"upsert", "delete"} /\ ~gsheets_active[last.sess]) =>
          /\ last.done
          /\ ~last.raised
          /\ file = JsonFile(call_log[last.sess])

\* C4: right after initialize() a remote-active store holds the remote log's
\* rows with a non-empty key (a failed remote read falls back to local).
C4_RemoteActiveMeansLoaded ==
    (last.op = "init" /\ gsheets_active[last.sess]) =>
        call_log[last.sess] = LoadRows(sheet, EmptyLog)

\* C5: delete(key) twice in a row leaves mapping and backend as delete(key)
\* once does, for every key and every store state.
C5_DeleteIdempotent ==
    \A s \in Sessions, k \in Keys :
        (loaded[s] /\ IsIdle(s)) =>
            LET st == [log |-> call_log[s], rows |-> sheet, file |-> file]
                once == delete_entry(st, k, gsheets_active[s])
            IN delete_entry(once, k, gsheets_active[s]) = once

\* C6: no operation lets a backend failure reach the caller as an exception.
C6_NothingRaises == ~last.raised

\* C7: a remote upsert or delete call that fails after the connection was
\* obtained is notified exactly once, and the mapping keeps the result.
C7_FailureNotifiedOnce ==
    (last.op \in {"upsert", "delete"} /\ last.done /\ last.conn = "sh"
       /\ last.remote = "fail") =>
        /\ last.toasts = 1
        /\ last.op = "upsert" => call_log[last.sess][last.key] = last.entry
        /\ last.op = "delete" => ~HasKey(call_log[last.sess], last.key)

\* C8: once a session is loaded no step changes its backend flag, and a
\* further initialize() changes neither the flag nor the mapping.
C8_FlagDecidedOnce ==
    [][\A s \in Sessions :
          loaded[s] =>
             /\ loaded'[s]
             /\ gsheets_active'[s] = gsheets_active[s]
             /\ (last'.op = "rerun" /\ last'.sess = s) =>
                   call_log'[s] = call_log[s]]_vars

\* C8 witness: initialize() ran again on a loaded remote-active session that
\* holds an entry the remote log does not.
C8_Witness_SecondInitialize ==
    /\ last.op = "rerun"
    /\ gsheets_active[last.sess]
    /\ call_log[last.sess] # EmptyLog
    /\ call_log[last.sess] # LoadRows(sheet, EmptyLog)

\* C9: refresh() on a remote-active store leaves the mapping equal to the
\* current remote log; refresh() on a local-active store changes nothing,
\* whatever the connection returns at that moment.
C9_RefreshContract ==
    /\ last.op = "refresh" => call_log[last.sess] = LoadRows(sheet, EmptyLog)
    /\ \A s \in Sessions :
          (loaded[s] /\ ~gsheets_active[s] /\ IsIdle(s)) =>
             \A up \in BOOLEAN, readOk \in BOOLEAN :
                refresh_log(call_log[s], get_gsheet_connection(connCache, up),
                            sheet, readOk) = call_log[s]

\* C10: after two sessions upsert the same key concurrently the remote log
\* holds exactly one row for the key, that of the upsert that wrote last.
C10_LastWriteWins ==
    (last.op = "upsert" /\ last.done /\ last.remote = "ok" /\ last.raced) =>
        /\ Cardinality(RowsOf(last.key)) = 1
        /\ \A i \in RowsOf(last.key) : sheet[i] = RowData(last.key, last.entry)

\* C11: for every mapping m of LogEntry-shaped entries (the empty mapping,
\* empty-string fields and non-ASCII names included), loading the local file
\* after saving m returns a mapping equal to m, and raises nothing.
C11_LocalRoundTrip ==
    last.op = "loadAll" =>
        /\ call_log[last.sess] = call_log["s1"]
        /\ ~last.raised

\* C11 witness: a mapping with a non-ASCII key and name, a quote and a
\* backslash in the notes has been saved and loaded again.
C11_Witness_UnicodeLoaded ==
    /\ last.op = "loadAll"
    /\ HasKey(call_log["s2"], LogKey(PrefixRecovery, <<"Zoë">>))
    /\ call_log["s2"][LogKey(PrefixRecovery, <<"Zoë">>)].customer_name = "Zoë"
    /\ call_log["s2"][LogKey(PrefixRecovery, <<"Zoë">>)].notes = "q\"\\"

\* The logical campaign of a key prefix.
LogicalCampaign(prefix) ==
    IF prefix \in {<<"conquest", "_", "sn">>, <<"conquest", "_", "eda">>}
    THEN <<"conquest">> ELSE prefix

\* C12: for a key prefix_customerId the campaign column of its remote row and
\* the campaign label of its recent-activity row are the logical campaign of
\* the prefix (conquest for conquest_sn), whatever the customerId is.
C12_CampaignOfPrefix ==
    \A row \in OpsRows :
        LET k == LogKey(row.prefix, row.cid)
        IN /\ \A i \in 1..Len(sheet) :
                 sheet[i].log_key = k => sheet[i].campaign = LogicalCampaign(row.prefix)
           /\ last.op = "admin" =>
                 \A r \in last.recent :
                    r.key = k =>
                       [i \in 1..Len(r.campaign) |-> Lower(r.campaign[i])]
                          = LogicalCampaign(row.prefix)

\* C14: the admin page draws, and for every branch its calls, follow-ups and
\* notes are the numbers of log entries of that branch with called = true,
\* followup = true and non-empty notes, and its users the number of distinct
\* non-empty user values among the branch's entries.
C14_BranchActivityCounts ==
    last.op = "admin" =>
        LET log == call_log[last.sess]
            of(brn) == {k \in DOMAIN log : log[k].branch_name = brn}
        IN /\ ~last.raised
           /\ \A brn \in Branches :
                /\ last.branch[brn].calls
                      = Cardinality({k \in of(brn) : log[k].called})
                /\ last.branch[brn].followups
                      = Cardinality({k \in of(brn) : log[k].followup})
                /\ last.branch[brn].notes
                      = Cardinality({k \in of(brn) : log[k].notes # ""})
                /\ last.branch[brn].users
                      = Cardinality({log[k].user : k \in of(brn)} \ {""})

\* C20: after a successful remote upsert of (key, e), loadAll() returns under
\* key an entry with the same seven fields as e, called and followup being
\* booleans, and no row with an empty log_key is part of the loaded mapping.
C20_RemoteRoundTrip ==
    (last.op = "upsert" /\ last.remote = "ok") =>
        LET m == load_call_log_gsheets(sheet, TRUE)
        IN /\ HasKey(m, last.key)
           /\ m[last.key].called \in BOOLEAN
           /\ m[last.key].followup \in BOOLEAN
           /\ m[last.key] = last.entry
           /\ ~HasKey(m, NoKey)

\* C13: every progress line reports total = number of dataset rows, called =
\* number of rows whose key has a called entry, remaining = total - called and
\* percent = floor(called * 100 / total), 0 when total = 0.
C13_ProgressPercent ==
    last.op \in {"admin_progress", "cards"} =>
        \A name \in DOMAIN last.stats :
            LET line == last.stats[name]
                rows == IF name = "conquest"
                        THEN dataset.conquest_sn \o dataset.conquest_eda
                        ELSE dataset[name]
            IN /\ line.total = Len(rows)
               /\ line.called <= line.total
               /\ name = "recovery" =>
                     line.called = Cardinality({i \in 1..Len(rows) :
                        \E k \in DOMAIN call_log[last.sess] :
                           /\ k = <<"recovery", "_", ToString(i)>>
                           /\ call_log[last.sess][k].called})
               /\ line.remaining = line.total - line.called
               /\ line.progress = IF line.total = 0 THEN 0
                                  ELSE (line.called * 100) \div line.total

\* C15: in one remote-active session whose remote calls succeed, every step
\* leaves at most one row per key; an upsert of a key that has a row rewrites
\* that row in place with the upserted entry and appends nothing, an upsert of
\* a key without a row appends exactly one row holding the upserted entry.
C15_UpsertRowInPlace ==
    [][gsheets_active["s1"] =>
         /\ \A i, j \in 1..Len(sheet') :
               sheet'[i].log_key = sheet'[j].log_key => i = j
         /\ last'.op = "upsert" =>
               LET row == RowData(last'.key, last'.entry)
               IN IF RowsOf(last'.key) = {}
                  THEN sheet' = Append(sheet, row)
                  ELSE /\ Len(sheet') = Len(sheet)
                       /\ \A i \in 1..Len(sheet) :
                             sheet'[i] = IF i \in RowsOf(last'.key) THEN row
                                         ELSE sheet[i]]_vars

\* A second upsert of the same key: the worksheet still has one row, and it
\* holds the later entry.
C15_Witness_SecondUpsert ==
    /\ gsheets_active["s1"]
    /\ edits = 2
    /\ last.op = "upsert"
    /\ last.entry.notes = "vm"
    /\ Len(sheet) = 1
    /\ sheet[1] = RowData(last.key, last.entry)

\* C16: after delete(key) on a remote-active store whose remote calls succeed
\* the remote log has no row with that key and a following refresh() leaves
\* get(key) absent; when no row has the key the remote log is unchanged.
C16_DeleteRemovesRow ==
    \A s \in Sessions, k \in Keys :
        (loaded[s] /\ IsIdle(s) /\ gsheets_active[s]) =>
            LET st == [log |-> call_log[s], rows |-> sheet, file |-> file]
                after == delete_entry(st, k, TRUE)
            IN /\ \A i \in 1..Len(after.rows) : after.rows[i].log_key # k
               /\ ~HasKey(refresh_log(after.log, "sh", after.rows, TRUE), k)
               /\ RowsOf(k) = {} => after.rows = sheet

\* C17: an upsert or delete of a local-active session never changes the
\* remote log, and when it completes the local file holds exactly the
\* session's in-memory mapping: the whole mapping is written, and loading the
\* file gives the mapping back.
C17_LocalRewritesFile ==
    [][(/\ edits' # edits
        /\ last'.op \in {"upsert", "delete"}
        /\ ~gsheets_active[last'.sess]) =>
          /\ sheet' = sheet
          /\ ~last'.raised =>
                /\ file' = JsonFile(call_log'[last'.sess])
                /\ load_call_log_local(file').log = call_log'[last'.sess]]_vars

\* A local-active session has upserted a second key: the file holds both
\* entries of its mapping.
C17_Witness_TwoKeysWritten ==
    /\ last.op = "upsert"
    /\ ~gsheets_active[last.sess]
    /\ last.local = "ok"
    /\ file.kind = "json"
    /\ Cardinality(file.doc) = 2
    /\ Cardinality(DOMAIN call_log[last.sess]) = 2

\* C18: a remote write is attempted once per operation. The step in which a
\* session's pending write is attempted, failed or not, ends the operation; a
\* write becomes pending only by a user edit; and the remote log changes only
\* in the one attempt of a pending operation, by one row.
C18_NoRetry ==
    [][/\ \A s \in Sessions :
            /\ (pc[s].at # "idle" /\ last'.sess = s /\ last' # last) =>
                  pc'[s].at = "idle"
            /\ (pc[s].at = "idle" /\ pc'[s].at # "idle") => edits' = edits + 1
       /\ sheet' # sheet =>
            /\ pc[last'.sess].at # "idle"
            /\ pc'[last'.sess].at = "idle"
            /\ last'.remote = "ok"
            /\ Len(sheet') \in {Len(sheet) - 1, Len(sheet), Len(sheet) + 1}
            /\ Len(sheet') = Len(sheet) =>
                  Cardinality({i \in 1..Len(sheet) : sheet'[i] # sheet[i]}) = 1]_vars

\* A write that was pending while the other session wrote the same key has
\* failed: the session is idle again, its entry is in memory only.
C18_Witness_FailedWriteDropped ==
    /\ last.op = "upsert"
    /\ last.remote = "fail"
    /\ last.raced
    /\ pc[last.sess].at = "idle"
    /\ HasKey(call_log[last.sess], last.key)
    /\ \A i \in RowsOf(last.key) : sheet[i] # RowData(last.key, last.entry)

\* C19: initialize() in local mode raises nothing and yields a mapping, the
\* empty one when the local file is missing and when its content cannot be
\* parsed.
C19_LocalLoadNeverRaises ==
    (last.op = "init" /\ last.conn = "None") =>
        /\ ~last.raised
        /\ loaded[last.sess]
        /\ ~gsheets_active[last.sess]
        /\ (file.kind = "missing" \/ ~json_load(file).ok) =>
              call_log[last.sess] = EmptyLog

\* A session initialised in local mode while the file held a write that had
\* stopped half way.
C19_Witness_CorruptFileLoaded ==
    /\ last.op = "init"
    /\ last.conn = "None"
    /\ file = FileCorrupt
    /\ loaded[last.sess]
    /\ call_log[last.sess] = EmptyLog

\* C21: in branch activity the targets of a branch are the number of its
\* rows summed over all six data files, the service file included.
C21_TargetsAllCampaigns ==
    (last.op = "admin" /\ ~last.raised) =>
        \A brn \in Branches :
            last.targets[brn]
              = Cardinality(UNION {
                    {<<name, i>> : i \in {j \in 1..Len(dataset[name]) :
                                            RowBranch(dataset[name][j]) = brn}} :
                    name \in DataFiles})

\* C22: with two sessions working on different keys, the position found for
\* a key still holds that key's row while the write or removal by position
\* is pending, and no key ends up with two rows.
C22_RowStillLocated ==
    /\ \A s \in Sessions :
         (pc[s].at \in {"save", "delete"} /\ pc[s].cell > 0) =>
             /\ pc[s].cell <= Len(sheet)
             /\ sheet[pc[s].cell].log_key = pc[s].key
    /\ \A k \in Keys : Cardinality(RowsOf(k)) <= 1

\* C23: with two local-active sessions on the one local file, a completed
\* upsert of a key by one session keeps in the file every entry that was
\* persisted there under a different key.
C23_LocalKeepsOtherKeys ==
    [][(/\ edits' # edits
        /\ last'.op = "upsert"
        /\ last'.local = "ok"
        /\ \A s \in Sessions : loaded[s] /\ ~gsheets_active[s]) =>
          \A k \in DOMAIN load_call_log_local(file).log \ {last'.key} :
              /\ k \in DOMAIN load_call_log_local(file').log
              /\ load_call_log_local(file').log[k]
                   = load_call_log_local(file).log[k]]_vars

\* C24: every upsert and every delete of a session, once it has returned,
\* has either written to its backend (the remote call or the local file write
\* succeeded) or told the user of the failure (a toast, the sidebar warning
\* of a failed connection, or the exception of a failed local write).
C24_ReachedOrNotified ==
    (last.op \in {"upsert", "delete"} /\ last.done) =>
        \/ last.remote = "ok"
        \/ last.local = "ok"
        \/ last.toasts > 0
        \/ sidebar_warning(last.conn) > 0
        \/ last.raised

====
